---- MODULE Spec2Model ----
(***************************************************************************)
(* Technical-analysis indicators of utils/technical_indicators.py.         *)
(*                                                                         *)
(* Every indicator is a pure function of a price series (pd.Series) or of  *)
(* an OHLCV table (pd.DataFrame).  A behaviour of the model is one call:   *)
(* Init draws the argument, an action applies one indicator to it and      *)
(* stores what it returned in out.  A pipeline (download_data.py,          *)
(* test4.py) is a sequence of such calls over one table, each followed by  *)
(* the assignment of the returned series to columns of it; a behaviour     *)
(* of SpecPipeline is one run of a pipeline, one action per statement.     *)
(*                                                                         *)
(* Numbers.  The code computes in float64.  The model computes in exact    *)
(* rational arithmetic extended with the three IEEE-754 specials the code  *)
(* relies on: a value is a pair <<n, d>> with d >= 0 and gcd(n, d) = 1;    *)
(* <<0, 0>> is NaN ("undefined"), <<1, 0>> is +inf and <<-1, 0>> is -inf.  *)
(* Sums and products cancel common factors before they multiply, so that   *)
(* the numerators and denominators stay within TLC's integers.             *)
(* Rounding error and the sign of zero are not modelled.                   *)
(*                                                                         *)
(* Positions.  Python positions 0..N-1 are indices 1..N of a sequence, so  *)
(* position i of the code is index i+1 here.                               *)
(***************************************************************************)
EXTENDS Integers, Sequences, FiniteSets, TLC

VARIABLES
    prices,       \* the pd.Series argument of ema/sma/bollinger_bands/macd/rsi
    prices_ohlc,  \* the pd.DataFrame argument of vwap/stochastic/adx: column -> series
    pc,           \* "ready" before the call, the function's name after it
    args,         \* the call's parameters
    out,          \* the tuple of series the call returned
    raised,       \* "none", or the exception the call raised
    table,        \* the table (df) a pipeline annotates: column -> series
    step          \* the pipeline's next statement (loop pass), 0 outside a pipeline

vars == <<prices, prices_ohlc, pc, args, out, raised, table, step>>

----------------------------------------------------------------------------
(* Bounds of the model *)

MaxLen == 4       \* longest price series (SpecSeries, SpecVolume)
MaxSpan == 3      \* spans, windows and periods are drawn from 1..MaxSpan
MaxNumStd == 2    \* num_std of bollinger_bands is drawn from 0..MaxNumStd
MaxBars == 4      \* longest OHLC table (SpecTable)
MaxVolume == 2    \* Volume of a bar is drawn from 0..MaxVolume
MaxRequest == 2   \* most names in one request to fetch_stock_data

----------------------------------------------------------------------------
(* float64 arithmetic: exact rationals with NaN and the two infinities *)

NaN == <<0, 0>>
PosInf == <<1, 0>>
NegInf == <<-1, 0>>

AbsInt(n) == IF n < 0 THEN -n ELSE n

SignInt(n) == IF n < 0 THEN -1 ELSE IF n > 0 THEN 1 ELSE 0

RECURSIVE GCD(_, _)
GCD(a, b) == IF b = 0 THEN a ELSE GCD(b, a % b)

\* n/d in lowest terms, d > 0
Norm(n, d) ==
    LET g == GCD(AbsInt(n), AbsInt(d))
        s == SignInt(d)
    IN  <<(s * n) \div g, (s * d) \div g>>

Rat(n) == <<n, 1>>

IsNaN(x) == x = NaN
IsInf(x) == x = PosInf \/ x = NegInf
IsFinite(x) == x[2] # 0
IsZero(x) == x[1] = 0 /\ x[2] # 0
Sign(x) == SignInt(x[1])
\* notna(): NaN is the only missing value of a float series
Defined(x) == ~IsNaN(x)

Neg(x) == <<-x[1], x[2]>>

Add(x, y) ==
    IF IsNaN(x) \/ IsNaN(y) THEN NaN
    ELSE IF IsInf(x) /\ IsInf(y) THEN (IF x = y THEN x ELSE NaN)
    ELSE IF IsInf(x) THEN x
    ELSE IF IsInf(y) THEN y
    ELSE LET g == GCD(x[2], y[2])
         IN  Norm(x[1] * (y[2] \div g) + y[1] * (x[2] \div g), (x[2] \div g) * y[2])

Sub(x, y) == Add(x, Neg(y))

Mul(x, y) ==
    IF IsNaN(x) \/ IsNaN(y) THEN NaN
    ELSE IF IsInf(x) \/ IsInf(y)
         THEN (IF Sign(x) * Sign(y) = 0 THEN NaN ELSE <<Sign(x) * Sign(y), 0>>)
    ELSE LET g == GCD(AbsInt(x[1]), y[2])
             h == GCD(AbsInt(y[1]), x[2])
         IN  Norm((x[1] \div g) * (y[1] \div h), (x[2] \div h) * (y[2] \div g))

\* x / y: a finite non-zero x over 0 is an infinity, 0/0 and inf/inf are NaN
Div(x, y) ==
    IF IsNaN(x) \/ IsNaN(y) THEN NaN
    ELSE IF IsInf(y) THEN (IF IsInf(x) THEN NaN ELSE Rat(0))
    ELSE IF IsZero(y) THEN (IF IsZero(x) THEN NaN ELSE <<Sign(x), 0>>)
    ELSE IF IsInf(x) THEN <<Sign(x) * Sign(y), 0>>
    ELSE Mul(x, <<Sign(y) * y[2], AbsInt(y[1])>>)

Abs(x) == <<AbsInt(x[1]), x[2]>>

\* comparisons with NaN are false
Lt(x, y) ==
    /\ ~IsNaN(x)
    /\ ~IsNaN(y)
    /\ x # y
    /\ \/ x = NegInf
       \/ y = PosInf
       \/ IsFinite(x) /\ IsFinite(y) /\ Sign(Add(x, Neg(y))) < 0

Le(x, y) == ~IsNaN(x) /\ ~IsNaN(y) /\ (x = y \/ Lt(x, y))

----------------------------------------------------------------------------
(* pandas Series operations used by the indicators *)

\* the series F(1), ..., F(n), every value of it computed once
Tabulate(F(_), n) == SubSeq([i \in 1..n |-> F(i)], 1, n)

\* elementwise binary operation of two aligned series
Zip(Op(_, _), s, t) == Tabulate(LAMBDA i : Op(s[i], t[i]), Len(s))

\* elementwise operation with a scalar
Map(Op(_), s) == Tabulate(LAMBDA i : Op(s[i]), Len(s))

\* Rolling._prep_values: "convert inf to nan for C funcs"; every rolling
\* reduction sees an infinity as a missing value
PrepValues(s) == Tabulate(LAMBDA i : IF IsInf(s[i]) THEN NaN ELSE s[i], Len(s))

RECURSIVE RollMeanState(_, _, _)
\* roll_mean's running (nobs, sum_x) after position i: remove_mean of the
\* value that left the window, then add_mean of the one that entered; a NaN
\* is neither added nor removed
RollMeanState(v, window, i) ==
    IF i = 0 THEN [nobs |-> 0, sum_x |-> Rat(0)]
    ELSE
        LET prev == RollMeanState(v, window, i - 1)
            gone == i - window
            removed ==
                IF gone >= 1 /\ Defined(v[gone])
                THEN [nobs |-> prev.nobs - 1, sum_x |-> Sub(prev.sum_x, v[gone])]
                ELSE prev
        IN  IF Defined(v[i])
            THEN [nobs |-> removed.nobs + 1, sum_x |-> Add(removed.sum_x, v[i])]
            ELSE removed

\* the rolling mean with min_periods = 1
RollingMeanPartial(s, window) ==
    LET v == PrepValues(s)
    IN  Tabulate(LAMBDA i :
            LET st == RollMeanState(v, window, i)
            IN  IF st.nobs >= 1 THEN Div(st.sum_x, Rat(st.nobs)) ELSE NaN, Len(s))

\* calc_mean with minp = window (rolling's min_periods defaults to window)
RollingMean(s, window) ==
    LET v == PrepValues(s)
    IN  Tabulate(LAMBDA i :
            LET st == RollMeanState(v, window, i)
            IN  IF st.nobs >= window /\ st.nobs > 0
                THEN Div(st.sum_x, Rat(st.nobs))
                ELSE NaN, Len(s))

\* Wilder's smoothing factor 1/span
AlphaWilder(span) == Div(Rat(1), Rat(span))

\* ewm(span=span): alpha = 1/(1+com) with com = (span-1)/2
Alpha(span) == Div(Rat(1), Add(Rat(1), Div(Rat(span - 1), Rat(2))))

RECURSIVE EwmState(_, _, _)
\* Series.ewm(adjust=False).mean(): pandas' recursion over (weighted, old_wt);
\* a NaN observation leaves weighted as it is and lets old_wt decay
EwmState(s, alpha, i) ==
    IF i = 1 THEN [weighted |-> s[1], old_wt |-> Rat(1)]
    ELSE
        LET prev == EwmState(s, alpha, i - 1)
            cur == s[i]
            old_wt_factor == Sub(Rat(1), alpha)
            new_wt == alpha
            old_wt == Mul(prev.old_wt, old_wt_factor)
        IN  IF Defined(prev.weighted)
            THEN IF Defined(cur)
                 THEN [weighted |->
                          IF prev.weighted # cur
                          THEN Div(Add(Mul(old_wt, prev.weighted), Mul(new_wt, cur)),
                                   Add(old_wt, new_wt))
                          ELSE prev.weighted,
                       old_wt |-> Rat(1)]
                 ELSE [weighted |-> prev.weighted, old_wt |-> old_wt]
            ELSE IF Defined(cur)
                 THEN [weighted |-> cur, old_wt |-> prev.old_wt]
                 ELSE prev

EwmMean(s, alpha) ==
    Tabulate(LAMBDA i : EwmState(s, alpha, i).weighted, Len(s))

\* Series.diff(): position 0 has no predecessor
Diff(s) == Tabulate(LAMBDA i : IF i = 1 THEN NaN ELSE Sub(s[i], s[i - 1]), Len(s))

\* Series.shift()
Shift(s) == Tabulate(LAMBDA i : IF i = 1 THEN NaN ELSE s[i - 1], Len(s))

\* Series.clip(lower=lo) and Series.clip(upper=hi): a NaN stays NaN
ClipLower(s, lo) ==
    Tabulate(LAMBDA i : IF IsNaN(s[i]) THEN NaN ELSE IF Lt(s[i], lo) THEN lo ELSE s[i], Len(s))

ClipUpper(s, hi) ==
    Tabulate(LAMBDA i : IF IsNaN(s[i]) THEN NaN ELSE IF Lt(hi, s[i]) THEN hi ELSE s[i], Len(s))

RECURSIVE CumSumAt(_, _)
\* running total through position i, NaN skipped (skipna=True)
CumSumAt(s, i) ==
    IF i = 0 THEN Rat(0)
    ELSE IF IsNaN(s[i]) THEN CumSumAt(s, i - 1)
    ELSE Add(CumSumAt(s, i - 1), s[i])

\* Series.cumsum(): a NaN position stays NaN, the total runs on past it
CumSum(s) == Tabulate(LAMBDA i : IF IsNaN(s[i]) THEN NaN ELSE CumSumAt(s, i), Len(s))

MinOf(x, y) == IF Lt(y, x) THEN y ELSE x
MaxOf(x, y) == IF Lt(x, y) THEN y ELSE x

RECURSIVE Fold(_, _, _, _)
\* Op over s[lo..hi], lo <= hi
Fold(Op(_, _), s, lo, hi) ==
    IF lo = hi THEN s[lo] ELSE Op(Fold(Op, s, lo, hi - 1), s[hi])

\* observations (non-NaN values) of the window ending at i
WindowNobs(v, window, i) ==
    Cardinality({j \in 1..i : j > i - window /\ Defined(v[j])})

\* Series.rolling(window).min() / .max(), min_periods = window
RollingMin(s, window) ==
    LET v == PrepValues(s)
    IN  Tabulate(LAMBDA i :
            IF WindowNobs(v, window, i) >= window /\ window > 0
            THEN Fold(MinOf, v, i - window + 1, i)
            ELSE NaN, Len(s))

RollingMax(s, window) ==
    LET v == PrepValues(s)
    IN  Tabulate(LAMBDA i :
            IF WindowNobs(v, window, i) >= window /\ window > 0
            THEN Fold(MaxOf, v, i - window + 1, i)
            ELSE NaN, Len(s))

\* add_var / remove_var: Welford's update of (nobs, mean_x, ssqdm_x)
AddVar(st, val) ==
    LET n == st.nobs + 1
        mean == Add(st.mean_x, Div(Sub(val, st.mean_x), Rat(n)))
    IN  [nobs |-> n, mean_x |-> mean,
         ssqdm_x |-> Add(st.ssqdm_x, Mul(Sub(val, st.mean_x), Sub(val, mean)))]

RemoveVar(st, val) ==
    LET n == st.nobs - 1
        mean == Sub(st.mean_x, Div(Sub(val, st.mean_x), Rat(n)))
    IN  IF n = 0 THEN [nobs |-> 0, mean_x |-> Rat(0), ssqdm_x |-> Rat(0)]
        ELSE [nobs |-> n, mean_x |-> mean,
              ssqdm_x |-> Sub(st.ssqdm_x, Mul(Sub(val, st.mean_x), Sub(val, mean)))]

RECURSIVE RollVarState(_, _, _)
RollVarState(v, window, i) ==
    IF i = 0 THEN [nobs |-> 0, mean_x |-> Rat(0), ssqdm_x |-> Rat(0)]
    ELSE
        LET prev == RollVarState(v, window, i - 1)
            gone == i - window
            removed ==
                IF gone >= 1 /\ Defined(v[gone]) THEN RemoveVar(prev, v[gone]) ELSE prev
        IN  IF Defined(v[i]) THEN AddVar(removed, v[i]) ELSE removed

\* calc_var with minp = window and ddof = 1 (the default of rolling().std());
\* a negative result is clamped to 0
RollingVar(s, window) ==
    LET v == PrepValues(s)
    IN  Tabulate(LAMBDA i :
            LET st == RollVarState(v, window, i)
                r == Div(st.ssqdm_x, Rat(st.nobs - 1))
            IN  IF st.nobs >= window /\ st.nobs > 1
                THEN (IF Lt(r, Rat(0)) THEN Rat(0) ELSE r)
                ELSE NaN, Len(s))

----------------------------------------------------------------------------
(* Square roots.  rolling().std() is the square root of the rolling        *)
(* variance, in general irrational.  A value that may contain it is kept   *)
(* exactly, as the triple <<a, b, r>> standing for a + b*sqrt(r), with     *)
(* a, b, r rational and r >= 0; SurdNaN is its NaN.                        *)

SurdNaN == <<NaN, NaN, NaN>>

Surd(a, b, r) ==
    IF IsFinite(a) /\ IsFinite(b) /\ IsFinite(r) THEN <<a, b, r>> ELSE SurdNaN

SurdDefined(x) == x # SurdNaN

\* zsqrt(var)
Sqrt(r) == Surd(Rat(0), Rat(1), r)

\* k * x, q + x and q - x for rational k and q
SurdScale(k, x) ==
    IF SurdDefined(x) THEN Surd(Mul(k, x[1]), Mul(k, x[2]), x[3]) ELSE SurdNaN

SurdPlus(q, x) ==
    IF SurdDefined(x) THEN Surd(Add(q, x[1]), x[2], x[3]) ELSE SurdNaN

SurdMinus(q, x) ==
    IF SurdDefined(x) THEN Surd(Sub(q, x[1]), Neg(x[2]), x[3]) ELSE SurdNaN

\* d + e*sqrt(r) = 0, for rational d, e and r >= 0
SurdIsZero(d, e, r) ==
    IF IsZero(e) \/ IsZero(r) THEN IsZero(d)
    ELSE /\ Sign(d) = -Sign(e)
         /\ Mul(d, d) = Mul(Mul(e, e), r)

\* x = q for a rational q
SurdEqRat(x, q) ==
    SurdDefined(x) /\ IsFinite(q) /\ SurdIsZero(Sub(x[1], q), x[2], x[3])

\* x = y for two values over the same square root
SurdEq(x, y) ==
    /\ SurdDefined(x)
    /\ SurdDefined(y)
    /\ x[3] = y[3]
    /\ SurdIsZero(Sub(x[1], y[1]), Sub(x[2], y[2]), x[3])

\* rolling(window).std()
RollingStd(s, window) == Map(Sqrt, RollingVar(s, window))

----------------------------------------------------------------------------
(* the indicators *)

ema(p, span) == EwmMean(p, Alpha(span))

\* an exponential average taken where the rolling one is meant
sma_as_ewm(p, window) == EwmMean(p, Alpha(window))

\* the mean of a window centred on the position (rolling(window, center=True)),
\* which reaches window \div 2 positions ahead
sma_centered(p, window) ==
    Tabulate(LAMBDA i :
        IF i + (window \div 2) <= Len(p)
        THEN RollingMean(p, window)[i + (window \div 2)]
        ELSE NaN, Len(p))

sma(p, window) == RollingMean(p, window)

\* the running total of Close*Volume over the bar's own volume
vwap_not_cumulative(df) ==
    LET close_x_volume == Zip(Mul, df["Close"], df["Volume"])
    IN  Zip(Div, CumSum(close_x_volume), df["Volume"])

\* the ratio with its undefined positions filled with 0
vwap_fillna(df) ==
    LET close_x_volume == Zip(Mul, df["Close"], df["Volume"])
        ratio == Zip(Div, CumSum(close_x_volume), CumSum(df["Volume"]))
    IN  Tabulate(LAMBDA i : IF IsNaN(ratio[i]) THEN Rat(0) ELSE ratio[i], Len(ratio))

vwap(df) ==
    LET close_x_volume == Zip(Mul, df["Close"], df["Volume"])
    IN  Zip(Div, CumSum(close_x_volume), CumSum(df["Volume"]))

\* std taken with .mean() where .std() is meant
bollinger_bands_std_as_mean(p, window, num_std) ==
    LET sma_line == RollingMean(p, window)
        std == Tabulate(LAMBDA i : Surd(sma_line[i], Rat(0), Rat(0)), Len(p))
        upper_band ==
            Tabulate(LAMBDA i : SurdPlus(sma_line[i], SurdScale(Rat(num_std), std[i])), Len(p))
        lower_band ==
            Tabulate(LAMBDA i : SurdMinus(sma_line[i], SurdScale(Rat(num_std), std[i])), Len(p))
    IN  <<sma_line, upper_band, lower_band>>

\* the population standard deviation (ddof = 0) in place of the sample one
bollinger_bands_population(p, window, num_std) ==
    LET sma_line == RollingMean(p, window)
        var == RollingVar(p, window)
        std ==
            Tabulate(LAMBDA i : Sqrt(Mul(var[i], Div(Rat(window - 1), Rat(window)))), Len(p))
        upper_band ==
            Tabulate(LAMBDA i : SurdPlus(sma_line[i], SurdScale(Rat(num_std), std[i])), Len(p))
        lower_band ==
            Tabulate(LAMBDA i : SurdMinus(sma_line[i], SurdScale(Rat(num_std), std[i])), Len(p))
    IN  <<sma_line, upper_band, lower_band>>

\* the standard deviation taken over one value more than the mean
bollinger_bands_std_wider(p, window, num_std) ==
    LET sma_line == RollingMean(p, window)
        std == RollingStd(p, window + 1)
    IN  <<sma_line,
          Zip(LAMBDA m, sd : SurdPlus(m, SurdScale(Rat(num_std), sd)), sma_line, std),
          Zip(LAMBDA m, sd : SurdMinus(m, SurdScale(Rat(num_std), sd)), sma_line, std)>>

bollinger_bands(p, window, num_std) ==
    LET sma_line == RollingMean(p, window)
        std == RollingStd(p, window)
    IN  <<sma_line,
          Zip(LAMBDA m, sd : SurdPlus(m, SurdScale(Rat(num_std), sd)), sma_line, std),
          Zip(LAMBDA m, sd : SurdMinus(m, SurdScale(Rat(num_std), sd)), sma_line, std)>>

\* the MACD line taken as slow EMA - fast EMA
macd_swapped(p, fast, slow, signal) ==
    LET ema_fast == EwmMean(p, Alpha(fast))
        ema_slow == EwmMean(p, Alpha(slow))
        macd_line == Zip(Sub, ema_slow, ema_fast)
        signal_line == EwmMean(macd_line, Alpha(signal))
        histogram == Zip(Sub, macd_line, signal_line)
    IN  <<macd_line, signal_line, histogram>>

\* the signal line taken as the EMA of the prices
macd_signal_of_prices(p, fast, slow, signal) ==
    LET ema_fast == EwmMean(p, Alpha(fast))
        ema_slow == EwmMean(p, Alpha(slow))
        macd_line == Zip(Sub, ema_fast, ema_slow)
        signal_line == EwmMean(p, Alpha(signal))
        histogram == Zip(Sub, macd_line, signal_line)
    IN  <<macd_line, signal_line, histogram>>

macd(p, fast, slow, signal) ==
    LET ema_fast == EwmMean(p, Alpha(fast))
        ema_slow == EwmMean(p, Alpha(slow))
        macd_line == Zip(Sub, ema_fast, ema_slow)
        signal_line == EwmMean(macd_line, Alpha(signal))
        histogram == Zip(Sub, macd_line, signal_line)
    IN  <<macd_line, signal_line, histogram>>

\* 100 - (100 / (1 + rs))
RsiOfRs(rs) == Sub(Rat(100), Div(Rat(100), Add(Rat(1), rs)))

\* gain = delta.clip(lower=0), averaged over period
AvgGain(p, period) == RollingMean(ClipLower(Diff(p), Rat(0)), period)

\* loss = -delta.clip(upper=0), averaged over period
AvgLoss(p, period) == RollingMean(Map(Neg, ClipUpper(Diff(p), Rat(0))), period)

\* rs = avg_gain / avg_loss
RelativeStrength(p, period) == Zip(Div, AvgGain(p, period), AvgLoss(p, period))

\* rs taken as avg_loss / avg_gain
rsi_swapped(p, period) ==
    Map(RsiOfRs, Zip(Div, AvgLoss(p, period), AvgGain(p, period)))

\* rs.fillna(0) before the normalisation
rsi_fillna(p, period) ==
    LET rs == RelativeStrength(p, period)
    IN  Map(RsiOfRs, Tabulate(LAMBDA i : IF IsNaN(rs[i]) THEN Rat(0) ELSE rs[i], Len(rs)))

\* Wilder's smoothing of the gains and losses in place of the simple mean
rsi_wilder(p, period) ==
    LET avg_gain == EwmMean(ClipLower(Diff(p), Rat(0)), AlphaWilder(period))
        avg_loss == EwmMean(Map(Neg, ClipUpper(Diff(p), Rat(0))), AlphaWilder(period))
    IN  Map(RsiOfRs, Zip(Div, avg_gain, avg_loss))

rsi(p, period) == Map(RsiOfRs, RelativeStrength(p, period))

\* the four asserts that open stochastic and adx, in their order
OHLC == <<"Open", "High", "Low", "Close">>

\* only the columns the computation reads are validated
MissingColumnsRead(df) == {k \in 2..Len(OHLC) : OHLC[k] \notin DOMAIN df}

MissingColumns(df) == {k \in 1..Len(OHLC) : OHLC[k] \notin DOMAIN df}

\* low_min taken over the High column
stochastic_low_of_high(df, k_window, d_window) ==
    LET low_min == RollingMin(df["High"], k_window)
        high_max == RollingMax(df["High"], k_window)
        percent_k ==
            Zip(Div,
                Map(LAMBDA x : Mul(Rat(100), x), Zip(Sub, df["Close"], low_min)),
                Zip(Sub, high_max, low_min))
        percent_d == RollingMean(percent_k, d_window)
    IN  <<percent_k, percent_d>>

\* %D as a mean that skips the undefined %K of its window
stochastic_d_skipna(df, k_window, d_window) ==
    LET low_min == RollingMin(df["Low"], k_window)
        high_max == RollingMax(df["High"], k_window)
        percent_k ==
            Zip(Div,
                Map(LAMBDA x : Mul(Rat(100), x), Zip(Sub, df["Close"], low_min)),
                Zip(Sub, high_max, low_min))
        percent_d == RollingMeanPartial(percent_k, d_window)
    IN  <<percent_k, percent_d>>

stochastic(df, k_window, d_window) ==
    LET low_min == RollingMin(df["Low"], k_window)
        high_max == RollingMax(df["High"], k_window)
        percent_k ==
            Zip(Div,
                Map(LAMBDA x : Mul(Rat(100), x), Zip(Sub, df["Close"], low_min)),
                Zip(Sub, high_max, low_min))
        percent_d == RollingMean(percent_k, d_window)
    IN  <<percent_k, percent_d>>

\* plus_dm[plus_dm < 0] = 0 and minus_dm[minus_dm > 0] = 0
ZeroBelow(s) == Tabulate(LAMBDA i : IF Lt(s[i], Rat(0)) THEN Rat(0) ELSE s[i], Len(s))

ZeroAbove(s) == Tabulate(LAMBDA i : IF Lt(Rat(0), s[i]) THEN Rat(0) ELSE s[i], Len(s))

\* the maximum of a row taken with skipna=False: a NaN in the row makes it NaN
RowMaxPropagating(a, b, c) ==
    Tabulate(LAMBDA i :
        LET row == {a[i], b[i], c[i]}
        IN  IF \E x \in row : IsNaN(x) THEN NaN
            ELSE CHOOSE x \in row : \A y \in row : Le(y, x), Len(a))

\* DataFrame.max(axis=1) of three columns: NaN is skipped, a row of NaN is NaN
RowMax(a, b, c) ==
    Tabulate(LAMBDA i :
        LET seen == {x \in {a[i], b[i], c[i]} : Defined(x)}
        IN  IF seen = {} THEN NaN
            ELSE CHOOSE x \in seen : \A y \in seen : Le(y, x), Len(a))

\* minus_di without its abs()
adx_no_abs(df, period) ==
    LET high == df["High"]
        low == df["Low"]
        close == df["Close"]
        plus_dm == ZeroBelow(Diff(high))
        minus_dm == ZeroAbove(Diff(low))
        tr1 == Zip(Sub, high, low)
        tr2 == Map(Abs, Zip(Sub, high, Shift(close)))
        tr3 == Map(Abs, Zip(Sub, low, Shift(close)))
        tr == RowMax(tr1, tr2, tr3)
        atr == RollingMean(tr, period)
        plus_di ==
            Map(LAMBDA x : Mul(Rat(100), x),
                Zip(Div, RollingMean(plus_dm, period), atr))
        minus_di ==
            Map(LAMBDA x : Mul(Rat(100), x),
                Zip(Div, RollingMean(minus_dm, period), atr))
        dx ==
            Map(LAMBDA x : Mul(x, Rat(100)),
                Zip(Div, Map(Abs, Zip(Sub, plus_di, minus_di)), Zip(Add, plus_di, minus_di)))
        adx_line == RollingMean(dx, period)
    IN  <<adx_line, plus_di, minus_di>>

\* the ADX line as Wilder's smoothing of dx in place of its rolling mean
adx_wilder(df, period) ==
    LET high == df["High"]
        low == df["Low"]
        close == df["Close"]
        plus_dm == ZeroBelow(Diff(high))
        minus_dm == ZeroAbove(Diff(low))
        tr1 == Zip(Sub, high, low)
        tr2 == Map(Abs, Zip(Sub, high, Shift(close)))
        tr3 == Map(Abs, Zip(Sub, low, Shift(close)))
        tr == RowMax(tr1, tr2, tr3)
        atr == RollingMean(tr, period)
        plus_di ==
            Map(LAMBDA x : Mul(Rat(100), x),
                Zip(Div, RollingMean(plus_dm, period), atr))
        minus_di ==
            Map(Abs,
                Map(LAMBDA x : Mul(Rat(100), x),
                    Zip(Div, RollingMean(minus_dm, period), atr)))
        dx ==
            Map(LAMBDA x : Mul(x, Rat(100)),
                Zip(Div, Map(Abs, Zip(Sub, plus_di, minus_di)), Zip(Add, plus_di, minus_di)))
        adx_line == EwmMean(dx, AlphaWilder(period))
    IN  <<adx_line, plus_di, minus_di>>

\* the true range taken as high - low alone, without the gaps to the
\* previous close
adx_tr_range(df, period) ==
    LET high == df["High"]
        low == df["Low"]
        close == df["Close"]
        plus_dm == ZeroBelow(Diff(high))
        minus_dm == ZeroAbove(Diff(low))
        tr1 == Zip(Sub, high, low)
        tr2 == Map(Abs, Zip(Sub, high, Shift(close)))
        tr3 == Map(Abs, Zip(Sub, low, Shift(close)))
        tr == tr1
        atr == RollingMean(tr, period)
        plus_di ==
            Map(LAMBDA x : Mul(Rat(100), x),
                Zip(Div, RollingMean(plus_dm, period), atr))
        minus_di ==
            Map(Abs,
                Map(LAMBDA x : Mul(Rat(100), x),
                    Zip(Div, RollingMean(minus_dm, period), atr)))
        dx ==
            Map(LAMBDA x : Mul(x, Rat(100)),
                Zip(Div, Map(Abs, Zip(Sub, plus_di, minus_di)), Zip(Add, plus_di, minus_di)))
        adx_line == RollingMean(dx, period)
    IN  <<adx_line, plus_di, minus_di>>

\* an undefined dx counted as 0 in the mean that gives the ADX line
adx_dx_fillna(df, period) ==
    LET high == df["High"]
        low == df["Low"]
        close == df["Close"]
        plus_dm == ZeroBelow(Diff(high))
        minus_dm == ZeroAbove(Diff(low))
        tr1 == Zip(Sub, high, low)
        tr2 == Map(Abs, Zip(Sub, high, Shift(close)))
        tr3 == Map(Abs, Zip(Sub, low, Shift(close)))
        tr == RowMax(tr1, tr2, tr3)
        atr == RollingMean(tr, period)
        plus_di ==
            Map(LAMBDA x : Mul(Rat(100), x),
                Zip(Div, RollingMean(plus_dm, period), atr))
        minus_di ==
            Map(Abs,
                Map(LAMBDA x : Mul(Rat(100), x),
                    Zip(Div, RollingMean(minus_dm, period), atr)))
        dx ==
            Map(LAMBDA x : Mul(x, Rat(100)),
                Zip(Div, Map(Abs, Zip(Sub, plus_di, minus_di)), Zip(Add, plus_di, minus_di)))
        adx_line ==
            RollingMean(Map(LAMBDA x : IF IsNaN(x) THEN Rat(0) ELSE x, dx), period)
    IN  <<adx_line, plus_di, minus_di>>

adx(df, period) ==
    LET high == df["High"]
        low == df["Low"]
        close == df["Close"]
        plus_dm == ZeroBelow(Diff(high))
        minus_dm == ZeroAbove(Diff(low))
        tr1 == Zip(Sub, high, low)
        tr2 == Map(Abs, Zip(Sub, high, Shift(close)))
        tr3 == Map(Abs, Zip(Sub, low, Shift(close)))
        tr == RowMax(tr1, tr2, tr3)
        atr == RollingMean(tr, period)
        plus_di ==
            Map(LAMBDA x : Mul(Rat(100), x),
                Zip(Div, RollingMean(plus_dm, period), atr))
        minus_di ==
            Map(Abs,
                Map(LAMBDA x : Mul(Rat(100), x),
                    Zip(Div, RollingMean(minus_dm, period), atr)))
        dx ==
            Map(LAMBDA x : Mul(x, Rat(100)),
                Zip(Div, Map(Abs, Zip(Sub, plus_di, minus_di)), Zip(Add, plus_di, minus_di)))
        adx_line == RollingMean(dx, period)
    IN  <<adx_line, plus_di, minus_di>>

\* the series adx averages and their rolling means, as adx computes them:
\* tr, atr, plus_dm.rolling(window=period).mean() and
\* minus_dm.rolling(window=period).mean()
adx_tr(df) ==
    RowMax(Zip(Sub, df["High"], df["Low"]),
           Map(Abs, Zip(Sub, df["High"], Shift(df["Close"]))),
           Map(Abs, Zip(Sub, df["Low"], Shift(df["Close"]))))

adx_atr(df, period) == RollingMean(adx_tr(df), period)

adx_plus_dm_mean(df, period) == RollingMean(ZeroBelow(Diff(df["High"])), period)

adx_minus_dm_mean(df, period) == RollingMean(ZeroAbove(Diff(df["Low"])), period)

\* dx, as adx computes it from plus_di and minus_di
adx_dx(df, period) ==
    Map(LAMBDA x : Mul(x, Rat(100)),
        Zip(Div, Map(Abs, Zip(Sub, adx(df, period)[2], adx(df, period)[3])),
                 Zip(Add, adx(df, period)[2], adx(df, period)[3])))

----------------------------------------------------------------------------
(* the calls *)

EmptyFrame == [c \in {} |-> <<>>]

\* prices a series is drawn from
PriceLevels == {Rat(10), Rat(11), Rat(12)}

SeriesInputs == UNION {[1..n -> PriceLevels] : n \in 1..MaxLen}

\* the call returns series o
Return(name, a, o) ==
    /\ pc = "ready"
    /\ pc' = name
    /\ args' = a
    /\ out' = o
    /\ raised' = "none"
    /\ UNCHANGED <<prices, prices_ohlc, table, step>>

\* the call raises exception e and returns nothing
Raise(name, a, e) ==
    /\ pc = "ready"
    /\ pc' = name
    /\ args' = a
    /\ out' = <<>>
    /\ raised' = e
    /\ UNCHANGED <<prices, prices_ohlc, table, step>>

CallEma ==
    \E span \in 1..MaxSpan :
        Return("ema", <<span>>, <<ema(prices, span)>>)

CallSma ==
    \E window \in 1..MaxSpan :
        Return("sma", <<window>>, <<sma(prices, window)>>)

CallBollinger ==
    \E window \in 1..MaxSpan, num_std \in 0..MaxNumStd :
        Return("bollinger_bands", <<window, num_std>>,
               bollinger_bands(prices, window, num_std))

CallMacd ==
    \E fast \in 1..MaxSpan, slow \in 1..MaxSpan, signal \in 1..MaxSpan :
        Return("macd", <<fast, slow, signal>>, macd(prices, fast, slow, signal))

CallRsi ==
    \E period \in 1..MaxSpan :
        Return("rsi", <<period>>, <<rsi(prices, period)>>)

CallVwap == Return("vwap", <<>>, <<vwap(prices_ohlc)>>)

CallStochastic ==
    \E k_window \in 1..MaxSpan, d_window \in 1..MaxSpan :
        IF MissingColumns(prices_ohlc) # {}
        THEN Raise("stochastic", <<k_window, d_window>>, "AssertionError")
        ELSE Return("stochastic", <<k_window, d_window>>,
                    stochastic(prices_ohlc, k_window, d_window))

CallAdx ==
    \E period \in 1..MaxSpan :
        IF MissingColumns(prices_ohlc) # {}
        THEN Raise("adx", <<period>>, "AssertionError")
        ELSE Return("adx", <<period>>, adx(prices_ohlc, period))

Ready ==
    /\ pc = "ready"
    /\ args = <<>>
    /\ out = <<>>
    /\ raised = "none"
    /\ table = EmptyFrame
    /\ step = 0

(* SpecSeries: the indicators of one price series *)

InitSeries ==
    /\ prices \in SeriesInputs
    /\ prices_ohlc = EmptyFrame
    /\ Ready

NextSeries == CallEma \/ CallSma \/ CallBollinger \/ CallMacd \/ CallRsi

SpecSeries == InitSeries /\ [][NextSeries]_vars

(* SpecTable: the indicators of an OHLC table of well-formed bars, and the *)
(* rolling indicators of its Close column                                  *)

\* <<Low, Close, High>> of the bars a table is built from
BarShapes == {<<10, 10, 10>>, <<11, 11, 11>>, <<10, 10, 11>>, <<10, 11, 12>>}

Frame(open, high, low, close, volume) ==
    [c \in {"Open", "High", "Low", "Close", "Volume"} |->
        CASE c = "Open" -> open
          [] c = "High" -> high
          [] c = "Low" -> low
          [] c = "Close" -> close
          [] c = "Volume" -> volume]

\* a table of the bars b: a bar opens at its low and trades one unit
TableOf(b) ==
    Frame(Tabulate(LAMBDA i : Rat(b[i][1]), Len(b)),
          Tabulate(LAMBDA i : Rat(b[i][3]), Len(b)),
          Tabulate(LAMBDA i : Rat(b[i][1]), Len(b)),
          Tabulate(LAMBDA i : Rat(b[i][2]), Len(b)),
          Tabulate(LAMBDA i : Rat(1), Len(b)))

TableInputs == {TableOf(b) : b \in UNION {[1..n -> BarShapes] : n \in 1..MaxBars}}

\* the callers pass the Close column where a series is taken: ta.sma(df["Close"])
InitTable ==
    /\ prices_ohlc \in TableInputs
    /\ prices = prices_ohlc["Close"]
    /\ Ready

NextTable == CallStochastic \/ CallAdx \/ CallSma \/ CallBollinger

SpecTable == InitTable /\ [][NextTable]_vars

(* SpecVolume: vwap of a table of closes and volumes *)

\* a table whose bars do not move within the bar: Open = High = Low = Close
FlatTableOf(close, volume) == Frame(close, close, close, close, volume)

\* closes a table of SpecVolume is drawn from
VolumeCloses == {Rat(10), Rat(12)}

VolumeInputs ==
    {FlatTableOf(c, Tabulate(LAMBDA i : Rat(v[i]), Len(c))) :
        <<c, v>> \in UNION {[1..n -> VolumeCloses] \X [1..n -> 0..MaxVolume] : n \in 1..MaxLen}}

InitVolume ==
    /\ prices = <<>>
    /\ prices_ohlc \in VolumeInputs
    /\ Ready

NextVolume == CallVwap

SpecVolume == InitVolume /\ [][NextVolume]_vars

(* SpecCalls: every indicator, called on one table and on its Close column *)

\* the bars of the tables of SpecCalls
CallBarShapes == {<<10, 10, 10>>, <<10, 10, 11>>, <<10, 11, 12>>}

\* the table t with the volumes 0, 1, 2, 0, ... in place of its own
WithVolumes(t) ==
    [t EXCEPT !["Volume"] = Tabulate(LAMBDA i : Rat((i - 1) % 3), Len(t["Volume"]))]

CallInputs ==
    {WithVolumes(TableOf(b)) : b \in UNION {[1..n -> CallBarShapes] : n \in 1..MaxBars}}

InitCalls ==
    /\ prices_ohlc \in CallInputs
    /\ prices = prices_ohlc["Close"]
    /\ Ready

NextCalls ==
    \/ CallEma
    \/ CallSma
    \/ CallBollinger
    \/ CallMacd
    \/ CallRsi
    \/ CallVwap
    \/ CallStochastic
    \/ CallAdx

SpecCalls == InitCalls /\ [][NextCalls]_vars

(* SpecColumns: stochastic and adx of a table that lacks some columns *)

\* the table df without the columns gone
Drop(df, gone) == [c \in DOMAIN df \ gone |-> df[c]]

\* the tables of at most two bars
ShortTables == {TableOf(b) : b \in [1..1 -> BarShapes] \cup [1..2 -> BarShapes]}

ColumnInputs ==
    {Drop(t, gone) : t \in ShortTables,
                     gone \in SUBSET {"Open", "High", "Low", "Close", "Volume"}}

InitColumns ==
    /\ prices = <<>>
    /\ prices_ohlc \in ColumnInputs
    /\ Ready

NextColumns == CallStochastic \/ CallAdx

SpecColumns == InitColumns /\ [][NextColumns]_vars

----------------------------------------------------------------------------
(* the pipelines: each statement calls one indicator on the table and      *)
(* stores what it returned in columns of the table                         *)

\* the defaults of the indicators' parameters, which the pipelines rely on
bollinger_window == 20
bollinger_num_std == 2
macd_fast == 12
macd_slow == 26
macd_signal == 9
rsi_period == 14
stochastic_k_window == 14
stochastic_d_window == 3
adx_period == 14

\* df[key] = s: the column is added, or replaced when the table has one
SetColumn(d, key, s) == [c \in DOMAIN d \cup {key} |-> IF c = key THEN s ELSE d[c]]

\* df[keys[1]] = vals[1], ..., df[keys[n]] = vals[n], the keys all different
SetColumns(d, keys, vals) ==
    [c \in DOMAIN d \cup {keys[k] : k \in DOMAIN keys} |->
        IF \E k \in DOMAIN keys : keys[k] = c
        THEN vals[CHOOSE k \in DOMAIN keys : keys[k] = c]
        ELSE d[c]]

\* a statement ran to its end and left the table d
Ok(d) == [table |-> d, raised |-> "none"]

\* a statement raised e before it assigned anything
Fail(d, e) == [table |-> d, raised |-> e]

\* df["Close"] of a table without the column
HasColumns(d, cols) == cols \subseteq DOMAIN d

\* every span is stored under the one key "EMA"
EmaBlockOneKey(d, key, span) ==
    IF ~HasColumns(d, {"Close"}) THEN Fail(d, "KeyError")
    ELSE Ok(SetColumn(d, "EMA", ema(d["Close"], span)))

\* an EMA taken of the EMA5 column once the table has one
EmaBlockOfEma(d, key, span) ==
    IF ~HasColumns(d, {"Close"}) THEN Fail(d, "KeyError")
    ELSE Ok(SetColumn(d, key,
                      ema(IF "EMA5" \in DOMAIN d THEN d["EMA5"] ELSE d["Close"], span)))

\* df[key] = ta.ema(df["Close"], span=span)
EmaBlock(d, key, span) ==
    IF ~HasColumns(d, {"Close"}) THEN Fail(d, "KeyError")
    ELSE Ok(SetColumn(d, key, ema(d["Close"], span)))

\* df["VWAP"] = ta.vwap(df)
VwapBlock(d) ==
    IF ~HasColumns(d, {"Close", "Volume"}) THEN Fail(d, "KeyError")
    ELSE Ok(SetColumn(d, "VWAP", vwap(d)))

\* sma_line, upper_bb, lower_bb = ta.bollinger_bands(df["Close"]) and the
\* three assignments
BollingerBlock(d) ==
    IF ~HasColumns(d, {"Close"}) THEN Fail(d, "KeyError")
    ELSE Ok(SetColumns(d, <<"BB_SMA", "BB_Upper", "BB_Lower">>,
                       bollinger_bands(d["Close"], bollinger_window, bollinger_num_std)))

\* macd_line, signal_line, histogram = ta.macd(df["Close"]) and the three
\* assignments
MacdBlock(d) ==
    IF ~HasColumns(d, {"Close"}) THEN Fail(d, "KeyError")
    ELSE Ok(SetColumns(d, <<"MACD", "MACD_Signal", "MACD_Histo">>,
                       macd(d["Close"], macd_fast, macd_slow, macd_signal)))

\* df["RSI"] = ta.rsi(df["Close"])
RsiBlock(d) ==
    IF ~HasColumns(d, {"Close"}) THEN Fail(d, "KeyError")
    ELSE Ok(SetColumn(d, "RSI", rsi(d["Close"], rsi_period)))

\* the assertion error caught and the indicator skipped
StochasticBlockSkipped(d) ==
    IF MissingColumns(d) # {} THEN Ok(d)
    ELSE Ok(SetColumns(d, <<"Stoch_K", "Stoch_D">>,
                       stochastic(d, stochastic_k_window, stochastic_d_window)))

\* a stochastic that takes the close of the Stoch_K column once the table
\* has one
StochasticBlockOfStoch(d) ==
    IF MissingColumns(d) # {} THEN Fail(d, "AssertionError")
    ELSE Ok(SetColumns(d, <<"Stoch_K", "Stoch_D">>,
                       stochastic(IF "Stoch_K" \in DOMAIN d
                                  THEN SetColumn(d, "Close", d["Stoch_K"]) ELSE d,
                                  stochastic_k_window, stochastic_d_window)))

\* stoch_perc_k, stoch_perc_d = ta.stochastic(df) and the two assignments
StochasticBlock(d) ==
    IF MissingColumns(d) # {} THEN Fail(d, "AssertionError")
    ELSE Ok(SetColumns(d, <<"Stoch_K", "Stoch_D">>,
                       stochastic(d, stochastic_k_window, stochastic_d_window)))

\* plus_dm a view of the High column, so that zeroing it writes the table
AdxBlockAliased(d) ==
    IF MissingColumns(d) # {} THEN Fail(d, "AssertionError")
    ELSE Ok(SetColumns(SetColumn(d, "High", ZeroBelow(Diff(d["High"]))),
                       <<"ADX", "ADX_Plus_Di", "ADX_Minus_Di">>, adx(d, adx_period)))

\* adx_line, adx_plus_di, adx_minus_di = ta.adx(df) and the three assignments
AdxBlock(d) ==
    IF MissingColumns(d) # {} THEN Fail(d, "AssertionError")
    ELSE Ok(SetColumns(d, <<"ADX", "ADX_Plus_Di", "ADX_Minus_Di">>,
                       adx(d, adx_period)))

\* one pass of fetch_stock_data's loop: the chain of ifs over the name; a
\* name that none of them matches changes nothing
FetchBody(d, indicator) ==
    CASE indicator = "EMA5" -> EmaBlock(d, "EMA5", 5)
      [] indicator = "EMA13" -> EmaBlock(d, "EMA13", 13)
      [] indicator = "EMA26" -> EmaBlock(d, "EMA26", 26)
      [] indicator = "EMA50" -> EmaBlock(d, "EMA50", 50)
      [] indicator = "EMA200" -> EmaBlock(d, "EMA200", 200)
      [] indicator = "VWAP" -> VwapBlock(d)
      [] indicator = "Bollinger Bands" -> BollingerBlock(d)
      [] indicator = "MACD" -> MacdBlock(d)
      [] indicator = "RSI" -> RsiBlock(d)
      [] indicator = "Stochastic" -> StochasticBlock(d)
      [] indicator = "ADX" -> AdxBlock(d)
      [] OTHER -> Ok(d)

\* statement k of __download_data's annotation
DownloadDataBody(d, k) ==
    CASE k = 1 -> EmaBlock(d, "EMA5", 5)
      [] k = 2 -> EmaBlock(d, "EMA13", 13)
      [] k = 3 -> EmaBlock(d, "EMA26", 26)
      [] k = 4 -> EmaBlock(d, "EMA50", 50)
      [] k = 5 -> EmaBlock(d, "EMA200", 200)
      [] k = 6 -> BollingerBlock(d)
      [] k = 7 -> MacdBlock(d)
      [] k = 8 -> RsiBlock(d)
      [] k = 9 -> StochasticBlock(d)
      [] k = 10 -> AdxBlock(d)

\* statement k of __append_ta_indicators
AppendTaIndicatorsBody(d, k) ==
    CASE k = 1 -> EmaBlock(d, "EMA5", 5)
      [] k = 2 -> EmaBlock(d, "EMA13", 13)
      [] k = 3 -> EmaBlock(d, "EMA23", 23)
      [] k = 4 -> EmaBlock(d, "EMA50", 50)
      [] k = 5 -> EmaBlock(d, "EMA200", 200)
      [] k = 6 -> BollingerBlock(d)
      [] k = 7 -> MacdBlock(d)
      [] k = 8 -> RsiBlock(d)
      [] k = 9 -> StochasticBlock(d)
      [] k = 10 -> AdxBlock(d)

\* the number of statements of the two fixed annotations
BodyLen == 10

\* the bars of the long table of SpecPipeline
LongLen == 16

(* SpecPipeline: one run of fetch_stock_data, of __download_data's         *)
(* annotation or of __append_ta_indicators over a table                    *)

OHLCV == {"Open", "High", "Low", "Close", "Volume"}

\* the names test5.py offers for selection, and the name "ADX" that the loop
\* compares with
IndicatorNames ==
    {"EMA5", "EMA13", "EMA26", "EMA50", "EMA200", "Bollinger Bands", "Volume",
     "MACD", "Stochastic", "RSI", "ADX/DMI", "VWAP", "ADX"}

\* the lists of names without repetition, as a multiselect returns them
Requests ==
    {r \in UNION {[1..n -> IndicatorNames] : n \in 0..MaxRequest} :
        \A i, j \in 1..Len(r) : i # j => r[i] # r[j]}

\* three bars whose close moves
MovingTable == TableOf(<<<<10, 10, 11>>, <<10, 11, 12>>, <<10, 10, 10>>>>)

\* sixteen bars around a close that stays at 10, enough for the windows of
\* 14 bars that stochastic and adx take by default
LongTable ==
    Frame(Tabulate(LAMBDA i : Rat(10), LongLen),
          Tabulate(LAMBDA i : Rat(10 + (i % 3)), LongLen),
          Tabulate(LAMBDA i : Rat(9 - ((i * i) % 4)), LongLen),
          Tabulate(LAMBDA i : Rat(10), LongLen),
          Tabulate(LAMBDA i : Rat(i % 2), LongLen))

PipelineTables ==
    {MovingTable, LongTable} \cup {Drop(MovingTable, {c}) : c \in OHLCV}

\* the statement's result r: the next statement, or the exception leaves the
\* function
RunStatement(r, done) ==
    IF r.raised = "none"
    THEN /\ table' = r.table
         /\ step' = step + 1
         /\ UNCHANGED <<prices, prices_ohlc, pc, args, out, raised>>
    ELSE /\ pc' = done
         /\ raised' = r.raised
         /\ out' = <<>>
         /\ UNCHANGED <<prices, prices_ohlc, args, table, step>>

\* fetch_stock_data(ticker, start_date, end_date, indicators): df is the
\* downloaded table
CallFetchStockData ==
    \E indicators \in Requests :
        /\ pc = "ready"
        /\ pc' = "fetch_stock_data:for"
        /\ args' = <<indicators>>
        /\ table' = prices_ohlc
        /\ step' = 1
        /\ UNCHANGED <<prices, prices_ohlc, out, raised>>

\* for indicator in indicators: one pass
FetchFor ==
    /\ pc = "fetch_stock_data:for"
    /\ step <= Len(args[1])
    /\ RunStatement(FetchBody(table, args[1][step]), "fetch_stock_data")

\* return df
FetchReturn ==
    /\ pc = "fetch_stock_data:for"
    /\ step > Len(args[1])
    /\ pc' = "fetch_stock_data"
    /\ out' = <<table>>
    /\ raised' = "none"
    /\ UNCHANGED <<prices, prices_ohlc, args, table, step>>

\* __download_data: df is the downloaded table, and df.columns = RENAMED_COLS
\* takes a table of five columns
CallDownloadData ==
    /\ pc = "ready"
    /\ table' = prices_ohlc
    /\ IF DOMAIN prices_ohlc = OHLCV
       THEN /\ pc' = "__download_data:body"
            /\ step' = 1
            /\ UNCHANGED <<prices, prices_ohlc, args, out, raised>>
       ELSE /\ pc' = "__download_data"
            /\ raised' = "ValueError"
            /\ UNCHANGED <<prices, prices_ohlc, args, out, step>>

DownloadDataStep ==
    /\ pc = "__download_data:body"
    /\ step <= BodyLen
    /\ RunStatement(DownloadDataBody(table, step), "__download_data")

\* return df
DownloadDataReturn ==
    /\ pc = "__download_data:body"
    /\ step > BodyLen
    /\ pc' = "__download_data"
    /\ out' = <<table>>
    /\ raised' = "none"
    /\ UNCHANGED <<prices, prices_ohlc, args, table, step>>

\* __append_ta_indicators(prices_ohlc): the argument is annotated in place
CallAppendTaIndicators ==
    /\ pc = "ready"
    /\ pc' = "__append_ta_indicators:body"
    /\ table' = prices_ohlc
    /\ step' = 1
    /\ UNCHANGED <<prices, prices_ohlc, args, out, raised>>

AppendTaIndicatorsStep ==
    /\ pc = "__append_ta_indicators:body"
    /\ step <= BodyLen
    /\ RunStatement(AppendTaIndicatorsBody(table, step), "__append_ta_indicators")

\* the function ends and returns None
AppendTaIndicatorsReturn ==
    /\ pc = "__append_ta_indicators:body"
    /\ step > BodyLen
    /\ pc' = "__append_ta_indicators"
    /\ out' = <<>>
    /\ raised' = "none"
    /\ UNCHANGED <<prices, prices_ohlc, args, table, step>>

InitPipeline ==
    /\ prices = <<>>
    /\ prices_ohlc \in PipelineTables
    /\ Ready

NextPipeline ==
    \/ CallFetchStockData \/ FetchFor \/ FetchReturn
    \/ CallDownloadData \/ DownloadDataStep \/ DownloadDataReturn
    \/ CallAppendTaIndicators \/ AppendTaIndicatorsStep \/ AppendTaIndicatorsReturn

SpecPipeline == InitPipeline /\ [][NextPipeline]_vars

(* SpecRerun: fetch_stock_data's loop and __append_ta_indicators, run      *)
(* again over the table they have annotated                                *)

\* the loop of fetch_stock_data over the same indicators, df the table the
\* loop has left
RerunFetchLoop ==
    /\ pc = "fetch_stock_data"
    /\ raised = "none"
    /\ pc' = "fetch_stock_data:for"
    /\ prices_ohlc' = table
    /\ step' = 1
    /\ UNCHANGED <<prices, args, table, out, raised>>

\* __append_ta_indicators(df) of a table it was called with before
RerunAppendTaIndicators ==
    /\ pc = "__append_ta_indicators"
    /\ raised = "none"
    /\ pc' = "__append_ta_indicators:body"
    /\ prices_ohlc' = table
    /\ step' = 1
    /\ UNCHANGED <<prices, args, table, out, raised>>

NextRerun ==
    \/ CallFetchStockData \/ FetchFor \/ FetchReturn \/ RerunFetchLoop
    \/ CallAppendTaIndicators \/ AppendTaIndicatorsStep \/ AppendTaIndicatorsReturn
    \/ RerunAppendTaIndicators

SpecRerun == InitPipeline /\ [][NextRerun]_vars

----------------------------------------------------------------------------
(* What the specification says of the indicators, stated independently of  *)
(* the definitions above.                                                  *)

N == Len(prices)

Returned(name) == pc = name /\ raised = "none"

AllDefined(s) == \A i \in 1..Len(s) : Defined(s[i]) /\ IsFinite(s[i])

AllNaN(s) == \A i \in 1..Len(s) : IsNaN(s[i])

\* s starts with the integers of t
StartsWith(s, t) == Len(s) >= Len(t) /\ \A i \in 1..Len(t) : s[i] = Rat(t[i])

RECURSIVE SumOf(_, _, _)
\* F(lo) + ... + F(hi)
SumOf(F(_), lo, hi) == IF hi < lo THEN Rat(0) ELSE Add(F(hi), SumOf(F, lo, hi - 1))

\* the smoothing factor 2/(span+1) and the recurrence
\* ema[i] = a*values[i] + (1-a)*ema[i-1], seeded with values[0]
SmoothingFactor(span) == Div(Rat(2), Rat(span + 1))

RECURSIVE EmaRecurrence(_, _, _)
EmaRecurrence(values, a, i) ==
    IF i = 1 THEN values[1]
    ELSE Add(Mul(a, values[i]), Mul(Sub(Rat(1), a), EmaRecurrence(values, a, i - 1)))

EmaOf(values, span) ==
    Tabulate(LAMBDA i : EmaRecurrence(values, SmoothingFactor(span), i), Len(values))

\* C1: ema returns N values, every one defined, the first equal to prices[0]
\* and each later one a*prices[i] + (1-a)*ema[i-1] with a = 2/(span+1);
\* prices starting 10, 11, 12 with span 3 give 10, 10.5, 11.25
EmaContract ==
    Returned("ema") =>
        LET span == args[1]
            a == SmoothingFactor(span)
            e == out[1]
        IN  /\ Len(e) = N
            /\ AllDefined(e)
            /\ e[1] = prices[1]
            /\ \A i \in 2..N :
                   e[i] = Add(Mul(a, prices[i]), Mul(Sub(Rat(1), a), e[i - 1]))
            /\ (span = 3 /\ StartsWith(prices, <<10, 11, 12>>)) =>
                   /\ e[1] = Rat(10)
                   /\ e[2] = <<21, 2>>
                   /\ e[3] = <<45, 4>>

EmaWitness ==
    /\ Returned("ema")
    /\ args = <<3>>
    /\ StartsWith(prices, <<10, 11, 12>>)
    /\ out[1][3] = <<45, 4>>

\* C2: sma returns N values, undefined at every position before window-1 and
\* from there on the arithmetic mean of the last window prices;
\* sma([10,11,12,11,10], 3) is [undefined, undefined, 11, 34/3, 11]
SmaContract ==
    Returned("sma") =>
        LET window == args[1]
            m == out[1]
        IN  /\ Len(m) = N
            /\ \A i \in 1..N :
                   IF i < window THEN IsNaN(m[i])
                   ELSE /\ IsFinite(m[i])
                        /\ Mul(m[i], Rat(window)) =
                               SumOf(LAMBDA j : prices[j], i - window + 1, i)
            /\ (window = 3 /\ StartsWith(prices, <<10, 11, 12, 11>>)) =>
                   /\ m[1] = NaN
                   /\ m[2] = NaN
                   /\ m[3] = Rat(11)
                   /\ m[4] = <<34, 3>>
                   /\ (N >= 5 /\ prices[5] = Rat(10)) => m[5] = Rat(11)

SmaWitness ==
    /\ Returned("sma")
    /\ args = <<3>>
    /\ StartsWith(prices, <<10, 11, 12, 11>>)
    /\ out[1][4] = <<34, 3>>

\* C3: for any positive spans macd returns three series defined at every
\* position, the MACD line being ema(prices, fast) - ema(prices, slow), the
\* signal line the ema of the MACD line, and the histogram their difference
MacdContract ==
    Returned("macd") =>
        LET fast == args[1]
            slow == args[2]
            signal == args[3]
            macd_line == out[1]
            signal_line == out[2]
            histogram == out[3]
            ema_fast == EmaOf(prices, fast)
            ema_slow == EmaOf(prices, slow)
        IN  /\ Len(macd_line) = N /\ Len(signal_line) = N /\ Len(histogram) = N
            /\ AllDefined(macd_line) /\ AllDefined(signal_line) /\ AllDefined(histogram)
            /\ \A i \in 1..N : macd_line[i] = Sub(ema_fast[i], ema_slow[i])
            /\ signal_line = EmaOf(macd_line, signal)
            /\ \A i \in 1..N : histogram[i] = Sub(macd_line[i], signal_line[i])

\* a call with fast > slow whose MACD line and histogram are not zero
MacdWitness ==
    /\ Returned("macd")
    /\ args[1] > args[2]
    /\ args[3] > 1
    /\ N >= 3
    /\ ~IsZero(out[3][N])
    /\ ~IsZero(out[1][N])

\* the window of period price changes that ends at index i is full when the
\* first of its changes has a predecessor
WindowFull(period, i) == i >= period + 1

GainAt(j) == MaxOf(Sub(prices[j], prices[j - 1]), Rat(0))

LossAt(j) == MaxOf(Sub(prices[j - 1], prices[j]), Rat(0))

GainSum(period, i) == SumOf(GainAt, i - period + 1, i)

LossSum(period, i) == SumOf(LossAt, i - period + 1, i)

\* C4: wherever rsi is defined it lies in [0, 100], and it is 100 exactly
\* where the window's average loss is 0 and its average gain is positive
RsiBounded ==
    Returned("rsi") =>
        LET period == args[1]
            r == out[1]
        IN  \A i \in 1..N :
                /\ Defined(r[i]) => Le(Rat(0), r[i]) /\ Le(r[i], Rat(100))
                /\ r[i] = Rat(100) <=>
                       /\ WindowFull(period, i)
                       /\ IsZero(LossSum(period, i))
                       /\ Lt(Rat(0), GainSum(period, i))

\* one call that saturates at 100 at one position and not at another
RsiWitness ==
    /\ Returned("rsi")
    /\ \E i, j \in 1..N :
           /\ out[1][i] = Rat(100)
           /\ Lt(Rat(0), out[1][j])
           /\ Lt(out[1][j], Rat(100))

\* C5: at a position >= period whose window of price changes is all zero,
\* rsi is NaN: no exception, and no number in its place
RsiFlatUndefined ==
    pc = "rsi" =>
        LET period == args[1]
        IN  /\ raised = "none"
            /\ Len(out[1]) = N
            /\ \A i \in 1..N :
                   (/\ WindowFull(period, i)
                    /\ \A j \in (i - period + 1)..i : prices[j] = prices[j - 1])
                   => IsNaN(out[1][i])

\* a flat window that follows a price move
RsiFlatWitness ==
    /\ Returned("rsi")
    /\ \E i \in 1..N :
           /\ WindowFull(args[1], i)
           /\ i - args[1] >= 2
           /\ prices[i - args[1]] # prices[i - args[1] - 1]
           /\ \A j \in (i - args[1] + 1)..i : prices[j] = prices[j - 1]
           /\ IsNaN(out[1][i])

Rows == Len(prices_ohlc["Close"])

\* low <= close <= high (and low <= open <= high) on every bar
WellFormed(df) ==
    \A i \in 1..Len(df["Close"]) :
        /\ Le(df["Low"][i], df["Close"][i]) /\ Le(df["Close"][i], df["High"][i])
        /\ Le(df["Low"][i], df["Open"][i]) /\ Le(df["Open"][i], df["High"][i])

\* the least and the greatest value of column c over the window ending at i
WindowValues(c, window, i) == {prices_ohlc[c][j] : j \in (i - window + 1)..i}

LeastOf(S) == CHOOSE x \in S : \A y \in S : Le(x, y)

GreatestOf(S) == CHOOSE x \in S : \A y \in S : Le(y, x)

\* C6: on well-formed bars, at every position >= k_window-1, %K is defined
\* and within [0, 100] when the window's highest high differs from its lowest
\* low, and is NaN when they are equal
StochasticRange ==
    (Returned("stochastic") /\ WellFormed(prices_ohlc)) =>
        LET k_window == args[1]
            percent_k == out[1]
        IN  /\ Len(percent_k) = Rows
            /\ \A i \in k_window..Rows :
                   LET low_min == LeastOf(WindowValues("Low", k_window, i))
                       high_max == GreatestOf(WindowValues("High", k_window, i))
                   IN  IF high_max # low_min
                       THEN /\ Defined(percent_k[i])
                            /\ Le(Rat(0), percent_k[i])
                            /\ Le(percent_k[i], Rat(100))
                       ELSE IsNaN(percent_k[i])

\* one call with a zero-range window, and a window whose %K is strictly
\* inside (0, 100)
StochasticWitness ==
    /\ Returned("stochastic")
    /\ WellFormed(prices_ohlc)
    /\ \E i, j \in args[1]..Rows :
           /\ IsNaN(out[1][i])
           /\ Lt(Rat(0), out[1][j])
           /\ Lt(out[1][j], Rat(100))

\* C7: on well-formed bars every defined value of the ADX line, +DI and -DI
\* is non-negative
AdxNonNegative ==
    (Returned("adx") /\ WellFormed(prices_ohlc)) =>
        /\ Len(out) = 3
        /\ \A k \in 1..3 :
               /\ Len(out[k]) = Rows
               /\ \A i \in 1..Rows : Defined(out[k][i]) => Le(Rat(0), out[k][i])

\* a call with period > 1 where the ADX line, +DI and -DI are all positive
\* somewhere
AdxWitness ==
    /\ Returned("adx")
    /\ WellFormed(prices_ohlc)
    /\ args[1] > 1
    /\ \E i, j, k \in 1..Rows :
           /\ Lt(Rat(0), out[1][i])
           /\ Lt(Rat(0), out[2][j])
           /\ Lt(Rat(0), out[3][k])

CloseTimesVolume(j) == Mul(prices_ohlc["Close"][j], prices_ohlc["Volume"][j])

VolumeAt(j) == prices_ohlc["Volume"][j]

\* C8: with non-negative volumes, wherever vwap is defined it is
\* sum(close*volume) / sum(volume) over positions 0..i and lies between the
\* least and the greatest close of positions 0..i
VwapBounded ==
    (Returned("vwap") /\ \A j \in 1..Rows : Le(Rat(0), VolumeAt(j))) =>
        /\ Len(out[1]) = Rows
        /\ \A i \in 1..Rows :
               Defined(out[1][i]) =>
                   /\ IsFinite(out[1][i])
                   /\ ~IsZero(SumOf(VolumeAt, 1, i))
                   /\ Mul(out[1][i], SumOf(VolumeAt, 1, i)) = SumOf(CloseTimesVolume, 1, i)
                   /\ Le(LeastOf(WindowValues("Close", i, i)), out[1][i])
                   /\ Le(out[1][i], GreatestOf(WindowValues("Close", i, i)))

\* a vwap strictly between the least and the greatest close, after a bar
\* without volume
VwapWitness ==
    /\ Returned("vwap")
    /\ \E i \in 2..Rows :
           /\ IsZero(VolumeAt(i - 1))
           /\ Defined(out[1][i])
           /\ Lt(LeastOf(WindowValues("Close", i, i)), out[1][i])
           /\ Lt(out[1][i], GreatestOf(WindowValues("Close", i, i)))

Constant(s) == \A i \in 1..Len(s) : s[i] = s[1]

\* C9: on a constant price series the defined upper and lower bands equal the
\* SMA line; a zero-variance window raises nothing and gives defined bands
BollingerFlat ==
    (pc = "bollinger_bands" /\ Constant(prices)) =>
        LET window == args[1]
            sma_line == out[1]
            upper_band == out[2]
            lower_band == out[3]
        IN  /\ raised = "none"
            /\ \A i \in 1..N :
                   /\ SurdDefined(upper_band[i]) => SurdEqRat(upper_band[i], sma_line[i])
                   /\ SurdDefined(lower_band[i]) => SurdEqRat(lower_band[i], sma_line[i])
                   /\ (SurdDefined(upper_band[i]) /\ SurdDefined(lower_band[i])) =>
                          SurdEq(upper_band[i], lower_band[i])
                   /\ (window >= 2 /\ i >= window) =>
                          /\ SurdDefined(upper_band[i])
                          /\ SurdDefined(lower_band[i])
                          /\ sma_line[i] = prices[1]

BollingerFlatWitness ==
    /\ Returned("bollinger_bands")
    /\ Constant(prices)
    /\ N >= 3
    /\ args = <<2, 2>>
    /\ SurdDefined(out[2][N])
    /\ SurdEqRat(out[2][N], out[1][N])

\* C10: with the window (k_window, period) greater than the series length,
\* every position of every output of sma, bollinger_bands, stochastic and adx
\* is undefined, and nothing is raised
WarmupUndefined ==
    /\ (pc = "sma" /\ args[1] > N) =>
           /\ raised = "none"
           /\ Len(out[1]) = N
           /\ AllNaN(out[1])
    /\ (pc = "bollinger_bands" /\ args[1] > N) =>
           /\ raised = "none"
           /\ Len(out[1]) = N /\ Len(out[2]) = N /\ Len(out[3]) = N
           /\ AllNaN(out[1])
           /\ \A i \in 1..N : ~SurdDefined(out[2][i]) /\ ~SurdDefined(out[3][i])
    /\ (pc = "stochastic" /\ MissingColumns(prices_ohlc) = {} /\ args[1] > Rows) =>
           /\ raised = "none"
           /\ Len(out[1]) = Rows /\ Len(out[2]) = Rows
           /\ AllNaN(out[1])
           /\ AllNaN(out[2])
    /\ (pc = "adx" /\ MissingColumns(prices_ohlc) = {} /\ args[1] > Rows) =>
           /\ raised = "none"
           /\ Len(out[1]) = Rows /\ Len(out[2]) = Rows /\ Len(out[3]) = Rows
           /\ AllNaN(out[1])
           /\ AllNaN(out[2])
           /\ AllNaN(out[3])

\* adx over two bars that move, with period 3
WarmupWitness ==
    /\ Returned("adx")
    /\ Rows = 2
    /\ args[1] = 3
    /\ prices_ohlc["High"][1] # prices_ohlc["High"][2]
    /\ AllNaN(out[1])
    /\ AllNaN(out[2])
    /\ AllNaN(out[3])

\* C11: stochastic and adx raise the column-validation error whenever one of
\* Open, High, Low, Close is absent from the table, Open included, and then
\* return nothing
ColumnValidation ==
    (pc \in {"stochastic", "adx"}
        /\ \E c \in {"Open", "High", "Low", "Close"} : c \notin DOMAIN prices_ohlc) =>
        /\ raised = "AssertionError"
        /\ out = <<>>

\* stochastic of a table that lacks Open and nothing else
ColumnValidationWitness ==
    /\ pc = "stochastic"
    /\ DOMAIN prices_ohlc = {"High", "Low", "Close", "Volume"}
    /\ Len(prices_ohlc["Close"]) = 2
    /\ raised = "AssertionError"
    /\ out = <<>>

\* the names fetch_stock_data has a computation for
ComputedNames ==
    {"EMA5", "EMA13", "EMA26", "EMA50", "EMA200", "VWAP", "Bollinger Bands",
     "MACD", "RSI", "Stochastic", "ADX"}

\* the request that fetch_stock_data was called with
Requested == args[1]

\* C12: fetch_stock_data, given a name it has no computation for, fails with
\* UnknownIndicatorError instead of returning a table
UnknownIndicatorRaises ==
    (/\ pc = "fetch_stock_data"
     /\ DOMAIN prices_ohlc = OHLCV
     /\ \E i \in 1..Len(Requested) : Requested[i] \notin ComputedNames) =>
        /\ raised = "UnknownIndicatorError"
        /\ out = <<>>

\* the spans the pipelines take an EMA of, and the key of a span
EmaSpans == {5, 13, 23, 26, 50, 200}

EmaKey(span) == "EMA" \o ToString(span)

\* the names passed so far by the loop of fetch_stock_data
Passed == {Requested[i] : i \in 1..(step - 1)}

InPipeline ==
    pc \in {"fetch_stock_data:for", "fetch_stock_data",
            "__download_data:body", "__download_data",
            "__append_ta_indicators:body", "__append_ta_indicators"}

\* C13: an EMA of span s is stored under "EMA" + s: whatever spans have been
\* computed, in whatever order, each is present under its own key with the
\* values of its own span, and the Close column they were computed from is
\* as it was
EmaKeyedBySpan ==
    (InPipeline /\ step > 0) =>
        /\ \A span \in EmaSpans :
               EmaKey(span) \in DOMAIN table =>
                   /\ "Close" \in DOMAIN table
                   /\ table["Close"] = prices_ohlc["Close"]
                   /\ table[EmaKey(span)] = EmaOf(prices_ohlc["Close"], span)
        /\ pc \in {"fetch_stock_data:for", "fetch_stock_data"} =>
               \A span \in EmaSpans :
                   EmaKey(span) \in Passed => EmaKey(span) \in DOMAIN table
        /\ (pc = "__download_data" /\ raised = "none") =>
               {EmaKey(span) : span \in {5, 13, 26, 50, 200}} \subseteq DOMAIN table
        /\ (pc = "__append_ta_indicators" /\ raised = "none") =>
               {EmaKey(span) : span \in {5, 13, 23, 50, 200}} \subseteq DOMAIN table

\* two spans requested in descending order, each under its own key
EmaKeyedBySpanWitness ==
    /\ pc = "fetch_stock_data"
    /\ raised = "none"
    /\ Requested = <<"EMA13", "EMA5">>
    /\ table["EMA5"][3] = <<92, 9>>
    /\ table["EMA13"][3] = <<496, 49>>

\* C14: while and after a pipeline runs, the table has the Open, High, Low,
\* Close and Volume columns it was given, with the values it was given, and
\* so has the table that is returned
OhlcvUnchanged ==
    InPipeline =>
        /\ \A c \in OHLCV :
               /\ c \in DOMAIN table <=> c \in DOMAIN prices_ohlc
               /\ c \in DOMAIN table => table[c] = prices_ohlc[c]
        /\ \A k \in 1..Len(out) :
               \A c \in DOMAIN prices_ohlc : out[k][c] = prices_ohlc[c]

\* __append_ta_indicators done on the long table, whose +DI is defined
OhlcvUnchangedWitness ==
    /\ pc = "__append_ta_indicators"
    /\ raised = "none"
    /\ prices_ohlc = LongTable
    /\ Defined(table["ADX_Plus_Di"][LongLen])
    /\ table["High"] = prices_ohlc["High"]

\* the columns named by keys, where the table has them, hold the series alone
Holds(keys, alone) ==
    \A k \in 1..Len(keys) : keys[k] \in DOMAIN table => table[keys[k]] = alone[k]

Appended(keys) == \E k \in 1..Len(keys) : keys[k] \in DOMAIN table

\* C15: in whatever order the indicators are run over one table, every
\* channel appended to it has the values its indicator gives when run alone
\* on the table as it was given
OrderIndependent ==
    InPipeline =>
        LET given == prices_ohlc
            close == prices_ohlc["Close"]
        IN  /\ \A span \in EmaSpans :
                   Holds(<<EmaKey(span)>>, <<ema(close, span)>>)
            /\ Holds(<<"VWAP">>, <<vwap(given)>>)
            /\ Appended(<<"BB_SMA", "BB_Upper", "BB_Lower">>) =>
                   Holds(<<"BB_SMA", "BB_Upper", "BB_Lower">>,
                         bollinger_bands(close, bollinger_window, bollinger_num_std))
            /\ Appended(<<"MACD", "MACD_Signal", "MACD_Histo">>) =>
                   Holds(<<"MACD", "MACD_Signal", "MACD_Histo">>,
                         macd(close, macd_fast, macd_slow, macd_signal))
            /\ Holds(<<"RSI">>, <<rsi(close, rsi_period)>>)
            /\ Appended(<<"Stoch_K", "Stoch_D">>) =>
                   Holds(<<"Stoch_K", "Stoch_D">>,
                         stochastic(given, stochastic_k_window, stochastic_d_window))
            /\ Appended(<<"ADX", "ADX_Plus_Di", "ADX_Minus_Di">>) =>
                   Holds(<<"ADX", "ADX_Plus_Di", "ADX_Minus_Di">>, adx(given, adx_period))
            /\ DOMAIN table \ DOMAIN prices_ohlc \subseteq
                   {EmaKey(span) : span \in EmaSpans} \cup
                   {"VWAP", "BB_SMA", "BB_Upper", "BB_Lower", "MACD", "MACD_Signal",
                    "MACD_Histo", "RSI", "Stoch_K", "Stoch_D", "ADX", "ADX_Plus_Di",
                    "ADX_Minus_Di"}

\* stochastic run on the long table after EMA5 has been appended to it
OrderIndependentWitness ==
    /\ pc = "fetch_stock_data"
    /\ raised = "none"
    /\ Requested = <<"EMA5", "Stochastic">>
    /\ prices_ohlc = LongTable
    /\ table["Stoch_K"][LongLen] = Rat(50)
    /\ table["Stoch_D"][LongLen] = Rat(50)

\* the columns an indicator of fetch_stock_data cannot be computed without
Requires(name) ==
    IF name \in {"Stochastic", "ADX"} THEN {"Open", "High", "Low", "Close"}
    ELSE IF name = "VWAP" THEN {"Close", "Volume"}
    ELSE IF name \in ComputedNames THEN {"Close"}
    ELSE {}

\* the channels of an indicator of fetch_stock_data
ChannelsOf(name) ==
    CASE name = "Bollinger Bands" -> {"BB_SMA", "BB_Upper", "BB_Lower"}
      [] name = "MACD" -> {"MACD", "MACD_Signal", "MACD_Histo"}
      [] name = "Stochastic" -> {"Stoch_K", "Stoch_D"}
      [] name = "ADX" -> {"ADX", "ADX_Plus_Di", "ADX_Minus_Di"}
      [] OTHER -> {name}

\* C18: a pipeline run in which an indicator lacks a column it requires ends
\* with an exception and returns no table; a run that returns has every
\* column of every indicator it was asked for and has a computation for
BatchFailsExplicitly ==
    /\ (pc = "fetch_stock_data"
           /\ \E i \in 1..Len(Requested) :
                  ~(Requires(Requested[i]) \subseteq DOMAIN prices_ohlc)) =>
           /\ raised \in {"AssertionError", "KeyError"}
           /\ out = <<>>
    /\ (pc \in {"__download_data", "__append_ta_indicators"}
           /\ ~({"Open", "High", "Low", "Close"} \subseteq DOMAIN prices_ohlc)) =>
           /\ raised \in {"AssertionError", "KeyError", "ValueError"}
           /\ out = <<>>
    /\ (pc = "fetch_stock_data" /\ raised = "none") =>
           \A i \in 1..Len(Requested) :
               Requested[i] \in ComputedNames =>
                   ChannelsOf(Requested[i]) \subseteq DOMAIN out[1]

\* stochastic fails on a table without Open after EMA5 has been appended
BatchFailsExplicitlyWitness ==
    /\ pc = "fetch_stock_data"
    /\ Requested = <<"EMA5", "Stochastic">>
    /\ DOMAIN prices_ohlc = OHLCV \ {"Open"}
    /\ raised = "AssertionError"
    /\ out = <<>>
    /\ "EMA5" \in DOMAIN table

\* the directional movements and the true range of the bar at index j
PlusDmAt(j) == MaxOf(Sub(prices_ohlc["High"][j], prices_ohlc["High"][j - 1]), Rat(0))

MinusDmAt(j) == MaxOf(Sub(prices_ohlc["Low"][j - 1], prices_ohlc["Low"][j]), Rat(0))

TrueRangeAt(j) ==
    LET high == prices_ohlc["High"][j]
        low == prices_ohlc["Low"][j]
    IN  IF j = 1 THEN Sub(high, low)
        ELSE LET close == prices_ohlc["Close"][j - 1]
             IN  MaxOf(Sub(high, low), MaxOf(Abs(Sub(high, close)), Abs(Sub(low, close))))

\* no window is degenerate: the true ranges of every window of period bars
\* and the directional movements of every window of period changes are not
\* all zero
NonDegenerate(period) ==
    /\ \A i \in period..Rows : ~IsZero(SumOf(TrueRangeAt, i - period + 1, i))
    /\ \A i \in (period + 1)..Rows :
           ~IsZero(Add(SumOf(PlusDmAt, i - period + 1, i),
                       SumOf(MinusDmAt, i - period + 1, i)))

\* C16: on N >= 2*period bars without a degenerate window, the ADX line is
\* undefined before position 2*period-1 and defined from there on, and +DI
\* and -DI are undefined before position period and defined from there on
AdxDefinedFrom ==
    (/\ Returned("adx")
     /\ Rows >= 2 * args[1]
     /\ NonDegenerate(args[1])) =>
        LET period == args[1]
        IN  \A i \in 1..Rows :
                /\ IF i - 1 < 2 * period - 1
                   THEN IsNaN(out[1][i])
                   ELSE IsFinite(out[1][i])
                /\ \A k \in 2..3 :
                       IF i - 1 < period THEN IsNaN(out[k][i]) ELSE IsFinite(out[k][i])

\* four bars that move every time, with period 2
AdxDefinedFromWitness ==
    /\ Returned("adx")
    /\ args[1] = 2
    /\ Rows = 4
    /\ NonDegenerate(2)
    /\ IsNaN(out[1][3])
    /\ IsFinite(out[1][4])
    /\ IsNaN(out[2][2])
    /\ IsFinite(out[2][3])

\* C17: with non-negative volumes vwap raises nothing and is undefined at
\* exactly the positions whose cumulative volume is 0, hence defined at
\* every position when volume[0] > 0
VwapUndefinedAtZeroVolume ==
    (pc = "vwap" /\ \A j \in 1..Rows : Le(Rat(0), VolumeAt(j))) =>
        /\ raised = "none"
        /\ Len(out[1]) = Rows
        /\ \A i \in 1..Rows : IsNaN(out[1][i]) <=> IsZero(SumOf(VolumeAt, 1, i))
        /\ Lt(Rat(0), VolumeAt(1)) => \A i \in 1..Rows : IsFinite(out[1][i])

\* two leading bars without volume, then a traded bar
VwapUndefinedAtZeroVolumeWitness ==
    /\ Returned("vwap")
    /\ Rows >= 3
    /\ IsZero(VolumeAt(1))
    /\ IsZero(VolumeAt(2))
    /\ Lt(Rat(0), VolumeAt(3))
    /\ IsNaN(out[1][1])
    /\ IsNaN(out[1][2])
    /\ out[1][3] = prices_ohlc["Close"][3]

\* the mean of the window of w prices that ends at index i, and their sample
\* variance (divisor w - 1)
WindowMean(w, i) == Div(SumOf(LAMBDA j : prices[j], i - w + 1, i), Rat(w))

SampleVariance(w, i) ==
    Div(SumOf(LAMBDA j : Mul(Sub(prices[j], WindowMean(w, i)),
                             Sub(prices[j], WindowMean(w, i))), i - w + 1, i),
        Rat(w - 1))

\* C19: bollinger_bands returns the SMA line, and upper and lower bands that
\* lie num_std sample standard deviations of the same window above and below
\* it; all three are undefined before position window-1
BollingerContract ==
    Returned("bollinger_bands") =>
        LET window == args[1]
            num_std == args[2]
        IN  /\ Len(out[1]) = N /\ Len(out[2]) = N /\ Len(out[3]) = N
            /\ \A i \in 1..N :
                   IF i < window
                   THEN /\ IsNaN(out[1][i])
                        /\ ~SurdDefined(out[2][i])
                        /\ ~SurdDefined(out[3][i])
                   ELSE LET m == WindowMean(window, i)
                            v == SampleVariance(window, i)
                        IN  /\ out[1][i] = m
                            /\ IF IsNaN(v)
                               THEN ~SurdDefined(out[2][i]) /\ ~SurdDefined(out[3][i])
                               ELSE /\ SurdEq(out[2][i], <<m, Rat(num_std), v>>)
                                    /\ SurdEq(out[3][i], <<m, Rat(-num_std), v>>)

\* prices 10, 11, 12 with window 3 and num_std 2: variance 1, bands 11 +- 2
BollingerContractWitness ==
    /\ Returned("bollinger_bands")
    /\ args = <<3, 2>>
    /\ StartsWith(prices, <<10, 11, 12>>)
    /\ out[1][3] = Rat(11)
    /\ SurdEqRat(out[2][3], Rat(13))
    /\ SurdEqRat(out[3][3], Rat(9))

\* C20: rsi is undefined before position period, and from there on it is
\* 100 - 100/(1 + avg_gain/avg_loss) of the means of max(delta, 0) and
\* max(-delta, 0) over the period price changes that end at the position
RsiContract ==
    Returned("rsi") =>
        LET period == args[1]
        IN  /\ Len(out[1]) = N
            /\ \A i \in 1..N :
                   IF i - 1 < period THEN IsNaN(out[1][i])
                   ELSE LET avg_gain == Div(GainSum(period, i), Rat(period))
                            avg_loss == Div(LossSum(period, i), Rat(period))
                        IN  out[1][i] =
                                Sub(Rat(100),
                                    Div(Rat(100), Add(Rat(1), Div(avg_gain, avg_loss))))

\* a gain of 1 and a loss of 2 in a window of two changes: rsi = 100/3
RsiContractWitness ==
    /\ Returned("rsi")
    /\ args = <<2>>
    /\ StartsWith(prices, <<11, 12, 10>>)
    /\ IsNaN(out[1][2])
    /\ out[1][3] = <<100, 3>>

\* C21: on well-formed bars %D is defined exactly where %K is defined at all
\* of the d_window positions that end there, and is then their mean; an
\* undefined %K of a zero-range window makes %D undefined there and at the
\* next d_window-1 positions; %D is undefined before position
\* k_window+d_window-2
StochasticDPropagates ==
    (Returned("stochastic") /\ WellFormed(prices_ohlc)) =>
        LET k_window == args[1]
            d_window == args[2]
            percent_k == out[1]
            percent_d == out[2]
        IN  /\ Len(percent_d) = Rows
            /\ \A i \in 1..Rows :
                   /\ Defined(percent_d[i]) <=>
                          /\ i >= d_window
                          /\ \A j \in (i - d_window + 1)..i : Defined(percent_k[j])
                   /\ Defined(percent_d[i]) =>
                          Mul(percent_d[i], Rat(d_window)) =
                              SumOf(LAMBDA j : percent_k[j], i - d_window + 1, i)
                   /\ (i - 1 < k_window + d_window - 2) => IsNaN(percent_d[i])
            /\ \A j \in k_window..Rows :
                   (LeastOf(WindowValues("Low", k_window, j)) =
                        GreatestOf(WindowValues("High", k_window, j))) =>
                       /\ IsNaN(percent_k[j])
                       /\ \A i \in j..(j + d_window - 1) :
                              i <= Rows => IsNaN(percent_d[i])

\* two moving bars, a flat bar and a moving bar, with k_window 1 and
\* d_window 2: %D is defined at position 1 and undefined at 2 and 3
StochasticDPropagatesWitness ==
    /\ Returned("stochastic")
    /\ WellFormed(prices_ohlc)
    /\ args = <<1, 2>>
    /\ Rows = 4
    /\ IsFinite(out[2][2])
    /\ IsNaN(out[1][3])
    /\ IsNaN(out[2][3])
    /\ Defined(out[1][4])
    /\ IsNaN(out[2][4])

\* the stated formulas of adx at index i: the simple means of the directional
\* movements and of the true range over the period bars that end at i
AtrAt(period, i) == Div(SumOf(TrueRangeAt, i - period + 1, i), Rat(period))

PlusDiAt(period, i) ==
    IF i <= period THEN NaN
    ELSE Mul(Rat(100),
             Div(Div(SumOf(PlusDmAt, i - period + 1, i), Rat(period)), AtrAt(period, i)))

MinusDiAt(period, i) ==
    IF i <= period THEN NaN
    ELSE Mul(Rat(100),
             Abs(Div(Neg(Div(SumOf(MinusDmAt, i - period + 1, i), Rat(period))),
                     AtrAt(period, i))))

DxAt(period, i) ==
    Mul(Rat(100),
        Div(Abs(Sub(PlusDiAt(period, i), MinusDiAt(period, i))),
            Add(PlusDiAt(period, i), MinusDiAt(period, i))))

AdxLineAt(period, i) ==
    IF i >= period /\ \A j \in (i - period + 1)..i : IsFinite(DxAt(period, j))
    THEN Div(SumOf(LAMBDA j : DxAt(period, j), i - period + 1, i), Rat(period))
    ELSE NaN

\* C22: adx returns +DI = 100*sma(plus_dm)/atr, -DI = 100*|sma(minus_dm)/atr|
\* and the simple mean over period of dx = 100*|+DI - -DI|/(+DI + -DI), with
\* plus_dm = max(high - previous high, 0), minus_dm of magnitude
\* max(previous low - low, 0), the true range the greatest of high - low and
\* the two gaps to the previous close, and atr its simple mean over period
AdxFormulas ==
    Returned("adx") =>
        LET period == args[1]
        IN  \A i \in 1..Rows :
                /\ out[2][i] = PlusDiAt(period, i)
                /\ out[3][i] = MinusDiAt(period, i)
                /\ out[1][i] = AdxLineAt(period, i)

\* period 2 over four bars: a defined ADX line, a positive +DI and -DI, and
\* a bar whose true range is a gap to the previous close
AdxFormulasWitness ==
    /\ Returned("adx")
    /\ args = <<2>>
    /\ Rows = 4
    /\ Lt(Rat(0), out[1][4])
    /\ \E i, j \in 3..4 : Lt(Rat(0), out[2][i]) /\ Lt(Rat(0), out[3][j])
    /\ \E j \in 2..4 :
           TrueRangeAt(j) # Sub(prices_ohlc["High"][j], prices_ohlc["Low"][j])

\* C23 as stated: the first period positions of sma(plus_dm), sma(minus_dm)
\* and atr are all undefined
AdxMeansUndefinedFirstPeriod ==
    Returned("adx") =>
        LET period == args[1]
        IN  \A i \in 1..Rows :
                i - 1 <= period - 1 =>
                    /\ IsNaN(adx_plus_dm_mean(prices_ohlc, period)[i])
                    /\ IsNaN(adx_minus_dm_mean(prices_ohlc, period)[i])
                    /\ IsNaN(adx_atr(prices_ohlc, period)[i])

\* C23 amended: plus_dm and minus_dm have no value at position 0, so their
\* rolling means are undefined at positions 0..period-1 and defined from
\* position period; tr has the value high - low at position 0, so atr is
\* undefined only at positions 0..period-2 and is defined at position
\* period-1; +DI and -DI, the quotients, are undefined at positions
\* 0..period-1
AdxMeansWarmup ==
    Returned("adx") =>
        LET period == args[1]
            plus_mean == adx_plus_dm_mean(prices_ohlc, period)
            minus_mean == adx_minus_dm_mean(prices_ohlc, period)
            atr == adx_atr(prices_ohlc, period)
        IN  /\ adx_tr(prices_ohlc)[1] =
                   Sub(prices_ohlc["High"][1], prices_ohlc["Low"][1])
            /\ \A i \in 1..Rows :
                   /\ IF i - 1 <= period - 1
                      THEN IsNaN(plus_mean[i]) /\ IsNaN(minus_mean[i])
                      ELSE IsFinite(plus_mean[i]) /\ IsFinite(minus_mean[i])
                   /\ IF i - 1 <= period - 2 THEN IsNaN(atr[i]) ELSE IsFinite(atr[i])
                   /\ i - 1 <= period - 1 => IsNaN(out[2][i]) /\ IsNaN(out[3][i])
                   /\ out[2][i] = Mul(Rat(100), Div(plus_mean[i], atr[i]))
                   /\ out[3][i] = Abs(Mul(Rat(100), Div(minus_mean[i], atr[i])))

\* period 2 over three bars or more: atr is defined at position 1, where the
\* means of the directional movements are not
AdxMeansWarmupWitness ==
    /\ Returned("adx")
    /\ args = <<2>>
    /\ Rows >= 3
    /\ IsFinite(adx_atr(prices_ohlc, 2)[2])
    /\ IsNaN(adx_plus_dm_mean(prices_ohlc, 2)[2])
    /\ IsNaN(adx_minus_dm_mean(prices_ohlc, 2)[2])
    /\ IsFinite(adx_plus_dm_mean(prices_ohlc, 2)[3])

\* C24: adx raises nothing, and at every position where +DI + -DI is 0 dx
\* is NaN and the ADX line is NaN there and at each of the next period-1
\* positions
AdxZeroMovementUndefined ==
    pc = "adx" =>
        LET period == args[1]
            dx == adx_dx(prices_ohlc, period)
        IN  /\ raised = "none"
            /\ Len(out[1]) = Rows
            /\ \A i \in 1..Rows :
                   IsZero(Add(out[2][i], out[3][i])) =>
                       /\ IsNaN(dx[i])
                       /\ \A k \in i..(i + period - 1) : k <= Rows => IsNaN(out[1][k])

\* period 2 over four bars: a move, then two bars without any; dx is defined
\* at position 2 and undefined at position 3, where the ADX line would start
AdxZeroMovementUndefinedWitness ==
    /\ Returned("adx")
    /\ args = <<2>>
    /\ Rows = 4
    /\ IsFinite(adx_dx(prices_ohlc, 2)[3])
    /\ IsZero(Add(out[2][4], out[3][4]))
    /\ IsNaN(adx_dx(prices_ohlc, 2)[4])
    /\ IsNaN(out[1][4])

\* the first k bars of a table
FirstBars(df, k) == [c \in DOMAIN df |-> SubSeq(df[c], 1, k)]

\* the first k positions of each series of a returned tuple
FirstOf(o, k) == [n \in 1..Len(o) |-> SubSeq(o[n], 1, k)]

\* C25: every indicator is causal: computed on the first k bars alone, it
\* returns the first k positions of what it returns on all the bars, each
\* value and each undefined position the same
Causal ==
    \A k \in 1..Rows :
        LET head == SubSeq(prices, 1, k)
            bars == FirstBars(prices_ohlc, k)
        IN  /\ Returned("ema") => <<ema(head, args[1])>> = FirstOf(out, k)
            /\ Returned("sma") => <<sma(head, args[1])>> = FirstOf(out, k)
            /\ Returned("bollinger_bands") =>
                   bollinger_bands(head, args[1], args[2]) = FirstOf(out, k)
            /\ Returned("macd") =>
                   macd(head, args[1], args[2], args[3]) = FirstOf(out, k)
            /\ Returned("rsi") => <<rsi(head, args[1])>> = FirstOf(out, k)
            /\ Returned("vwap") => <<vwap(bars)>> = FirstOf(out, k)
            /\ Returned("stochastic") =>
                   stochastic(bars, args[1], args[2]) = FirstOf(out, k)
            /\ Returned("adx") => adx(bars, args[1]) = FirstOf(out, k)

\* stochastic with both windows 2 over four bars: %D of position 2 is defined,
\* is what the first three bars alone give, and differs from %D of position 3
CausalWitness ==
    /\ Returned("stochastic")
    /\ args = <<2, 2>>
    /\ Rows = 4
    /\ IsFinite(out[2][3])
    /\ IsFinite(out[2][4])
    /\ out[2][4] # out[2][3]
    /\ stochastic(FirstBars(prices_ohlc, 3), 2, 2)[2][3] = out[2][3]

\* C26: a second run of __append_ta_indicators, or of fetch_stock_data's loop
\* with the same request, over the table the first run annotated goes through
\* without an exception and leaves the set of columns and every value as the
\* first run left them, statement by statement: the table the second run was
\* given already holds what each statement assigns.
Annotated(d) == DOMAIN d \ OHLCV # {}

Idempotent ==
    (pc \in {"fetch_stock_data:for", "fetch_stock_data",
             "__append_ta_indicators:body", "__append_ta_indicators"}
        /\ Annotated(prices_ohlc))
    => /\ raised = "none"
       /\ DOMAIN table = DOMAIN prices_ohlc
       /\ \A c \in DOMAIN table : table[c] = prices_ohlc[c]
       /\ pc = "fetch_stock_data" => out = <<prices_ohlc>>

IdempotentWitness ==
    /\ pc = "__append_ta_indicators"
    /\ raised = "none"
    /\ {"Stoch_K", "ADX", "EMA5"} \subseteq DOMAIN prices_ohlc
    /\ Len(prices_ohlc["Close"]) = LongLen
    /\ IsFinite(prices_ohlc["Stoch_K"][LongLen])
    /\ IsFinite(prices_ohlc["ADX_Plus_Di"][LongLen])
    /\ table = prices_ohlc

\* the names the selection list of test5.py offers
Offered ==
    {"EMA5", "EMA13", "EMA26", "EMA50", "EMA200", "Bollinger Bands", "Volume",
     "MACD", "Stochastic", "RSI", "ADX/DMI", "VWAP"}

\* the columns the chart of an offered indicator reads
OutputColumns(name) ==
    IF name = "ADX/DMI" THEN ChannelsOf("ADX") ELSE ChannelsOf(name)

\* C27: fetch_stock_data, asked for an indicator name the selection list
\* offers, returns a table that has every output column of that indicator
\* (for ADX/DMI: ADX, ADX_Plus_Di, ADX_Minus_Di).
OfferedNameYieldsColumns ==
    (pc = "fetch_stock_data" /\ raised = "none" /\ DOMAIN prices_ohlc = OHLCV) =>
        \A i \in 1..Len(Requested) :
            Requested[i] \in Offered \ {"Volume"} =>
                OutputColumns(Requested[i]) \subseteq DOMAIN out[1]

\* the names the charts look the columns of a fixed pipeline up by
FixedNames ==
    {"EMA5", "EMA13", "EMA26", "EMA50", "EMA200", "BB_SMA", "BB_Upper",
     "BB_Lower", "MACD", "MACD_Signal", "MACD_Histo", "RSI", "Stoch_K",
     "Stoch_D", "ADX", "ADX_Plus_Di", "ADX_Minus_Di"}

\* C28: the annotation of __download_data and __append_ta_indicators, run to
\* the end over a table of Open, High, Low, Close, Volume, append exactly the
\* same seventeen column names, EMA26 among them.
FixedPipelinesSameNames ==
    (pc \in {"__download_data", "__append_ta_indicators"}
        /\ raised = "none" /\ DOMAIN prices_ohlc = OHLCV) =>
        DOMAIN table \ DOMAIN prices_ohlc = FixedNames

\* C29 as stated: the bands are defined at every position where the SMA
\* line is, that is at every position from window-1 on, for every window
\* from 1 up.
BandsDefinedWhereSma ==
    Returned("bollinger_bands") =>
        \A i \in 1..N :
            /\ Defined(out[1][i]) <=> i >= args[1]
            /\ SurdDefined(out[2][i]) <=> Defined(out[1][i])
            /\ SurdDefined(out[3][i]) <=> Defined(out[1][i])

\* C29: for a window of 2 or more the three outputs of bollinger_bands are
\* defined at exactly the same positions, those from window-1 on; for a
\* window of 1 the SMA line is defined at every position and the two bands at
\* none, the sample standard deviation of one value being undefined.
BandsDefinedWhereSmaFromTwo ==
    Returned("bollinger_bands") =>
        \A i \in 1..N :
            /\ Defined(out[1][i]) <=> i >= args[1]
            /\ args[1] >= 2 =>
                   /\ SurdDefined(out[2][i]) <=> Defined(out[1][i])
                   /\ SurdDefined(out[3][i]) <=> Defined(out[1][i])
            /\ args[1] = 1 =>
                   /\ ~SurdDefined(out[2][i])
                   /\ ~SurdDefined(out[3][i])

\* window 2 over three prices that move: undefined at the first position,
\* all three defined and apart at the second and third
BandsDefinedWhereSmaFromTwoWitness ==
    /\ Returned("bollinger_bands")
    /\ args = <<2, 1>>
    /\ N = 3
    /\ prices[1] # prices[2]
    /\ IsNaN(out[1][1]) /\ ~SurdDefined(out[2][1]) /\ ~SurdDefined(out[3][1])
    /\ \A i \in 2..3 :
           /\ IsFinite(out[1][i])
           /\ SurdDefined(out[2][i])
           /\ SurdDefined(out[3][i])
    /\ ~SurdEq(out[2][2], out[3][2])

\* C30: the MACD line, the signal line and the histogram are 0 at the first
\* position; on a constant price series, or with fast = slow, they are 0 at
\* every position; and macd with fast and slow exchanged returns the negation
\* of all three at every position.
MacdSymmetries ==
    Returned("macd") =>
        LET fast == args[1]
            slow == args[2]
            signal == args[3]
            exchanged == macd(prices, slow, fast, signal)
        IN  \A ch \in 1..3 :
                /\ Len(out[ch]) = N
                /\ IsZero(out[ch][1])
                /\ (Constant(prices) \/ fast = slow) =>
                       \A i \in 1..N : IsZero(out[ch][i])
                /\ \A i \in 1..N :
                       /\ IsFinite(out[ch][i])
                       /\ exchanged[ch][i] = Neg(out[ch][i])

\* prices that rise with fast 1 and slow 3: a positive MACD line and
\* histogram at the last position, negative ones with the spans exchanged
MacdSymmetriesWitness ==
    /\ Returned("macd")
    /\ args = <<1, 3, 2>>
    /\ N = 3
    /\ prices = <<Rat(10), Rat(11), Rat(12)>>
    /\ IsZero(out[1][1]) /\ IsZero(out[2][1]) /\ IsZero(out[3][1])
    /\ Sign(out[1][3]) = 1
    /\ Sign(out[2][3]) = 1
    /\ Sign(out[3][3]) = 1
    /\ Sign(macd(prices, 3, 1, 2)[3][3]) = -1

====
